---------------------------- MODULE Spec2Model ----------------------------
(***************************************************************************)
(* A model of konrad's convective adjustment (src/konrad/convection.py).   *)
(*                                                                         *)
(* Number system.  The code computes in IEEE doubles; the model computes   *)
(* in integers (fixed point).  One model temperature unit is the solver's  *)
(* tolerance scale: near_zero = heat_capacity / 1e13 is the energy of a    *)
(* surface temperature change of 1e-13 K, which the model counts as        *)
(* heat_capacity / NearZeroScale with one temperature unit per tolerance   *)
(* step.  A real division rounds towards minus infinity (\div).  The       *)
(* non-finite doubles that a division by zero produces are the three       *)
(* values PosInf, NegInf and NaN, with IEEE rules for the comparisons and  *)
(* the arithmetic that can meet them.                                      *)
(***************************************************************************)
EXTENDS Integers, Sequences, FiniteSets, TLC

(***************************************************************************)
(* Non-finite doubles                                                      *)
(***************************************************************************)
PosInf == 100000000
NegInf == 0 - PosInf
NaN == PosInf + 1

IsNaN(a) == a = NaN
IsInf(a) == a = PosInf \/ a = NegInf
Finite(a) == ~IsNaN(a) /\ ~IsInf(a)

\* IEEE comparisons: every comparison with a NaN is false.
FGt(a, b) == ~IsNaN(a) /\ ~IsNaN(b) /\ a > b
FLt(a, b) == ~IsNaN(a) /\ ~IsNaN(b) /\ a < b
FGe(a, b) == ~IsNaN(a) /\ ~IsNaN(b) /\ a >= b
FLe(a, b) == ~IsNaN(a) /\ ~IsNaN(b) /\ a =< b

FNeg(a) == IF IsNaN(a) THEN NaN ELSE 0 - a
FAbs(a) == IF IsNaN(a) THEN NaN ELSE IF a < 0 THEN 0 - a ELSE a

FAdd(a, b) ==
    IF IsNaN(a) \/ IsNaN(b) THEN NaN
    ELSE IF IsInf(a) /\ IsInf(b) THEN (IF a = b THEN a ELSE NaN)
    ELSE IF IsInf(a) THEN a
    ELSE IF IsInf(b) THEN b
    ELSE a + b

FSub(a, b) == FAdd(a, FNeg(b))

Sign(a) == IF a > 0 THEN 1 ELSE IF a < 0 THEN 0 - 1 ELSE 0

FMul(a, b) ==
    IF IsNaN(a) \/ IsNaN(b) THEN NaN
    ELSE IF IsInf(a) \/ IsInf(b)
         THEN (IF Sign(a) * Sign(b) = 0 THEN NaN
               ELSE IF Sign(a) * Sign(b) > 0 THEN PosInf ELSE NegInf)
    ELSE a * b

\* numpy true division of doubles: x/0 is +-inf, 0/0 and inf/inf are nan.
FDiv(a, b) ==
    IF IsNaN(a) \/ IsNaN(b) THEN NaN
    ELSE IF IsInf(a) /\ IsInf(b) THEN NaN
    ELSE IF IsInf(a) THEN (IF Sign(a) * (IF b < 0 THEN 0 - 1 ELSE 1) > 0
                           THEN PosInf ELSE NegInf)
    ELSE IF IsInf(b) THEN 0
    ELSE IF b = 0 THEN (IF a > 0 THEN PosInf ELSE IF a < 0 THEN NegInf ELSE NaN)
    ELSE a \div b

(***************************************************************************)
(* Arrays (numpy, index 0 is the lowest level) are sequences (index 1).    *)
(***************************************************************************)
RECURSIVE SumTo(_, _)
SumTo(s, n) == IF n = 0 THEN 0 ELSE FAdd(SumTo(s, n - 1), s[n])

\* np.sum
Sum(s) == SumTo(s, Len(s))

\* np.cumsum
cumsum(s) == [i \in 1..Len(s) |-> SumTo(s, i)]

\* np.diff
diff_array(s) == [i \in 1..(Len(s) - 1) |-> s[i + 1] - s[i]]

\* np.min
RECURSIVE MinTo(_, _)
MinTo(s, n) == IF n = 1 THEN s[1]
               ELSE IF s[n] < MinTo(s, n - 1) THEN s[n] ELSE MinTo(s, n - 1)

min_array(s) == MinTo(s, Len(s))

(***************************************************************************)
(* The column: pressure levels and half-levels (atmosphere['plev'],        *)
(* atmosphere['phlev']), decreasing with altitude, phlev bracketing plev.  *)
(***************************************************************************)
plev == <<9, 6, 2>>
phlev == <<10, 8, 4, 1>>
NLev == Len(plev)
Levels == 1..NLev


(***************************************************************************)
(* Physical constants, in model units.                                     *)
(***************************************************************************)
\* constants.g / constants.earth_standard_gravity (9.80665, rounded)
g == 10
\* constants.Lv, latent heat of vaporization per unit of water content
Lv == 8
\* the 1e13 of near_zero, in temperature units per tolerance step
NearZeroScale == 1
\* the iteration cap of the root finder
MaxIter == 100

\* elementwise helpers on arrays of doubles
ArrSub(a, b) == [i \in 1..Len(a) |-> FSub(a[i], b[i])]
ArrMul(a, b) == [i \in 1..Len(a) |-> FMul(a[i], b[i])]
ScalarMinus(x, a) == [i \in 1..Len(a) |-> FSub(x, a[i])]

(***************************************************************************)
(* energy_difference_dry(T_2, T_1, sst_2, sst_1, phlev, Cp, eff_Cp_s)      *)
(*   term_diff = - np.sum(Cp/g * dT * np.diff(phlev)) + eff_Cp_s * dT_s    *)
(***************************************************************************)
energy_difference_dry(T_2, T_1, sst_2, sst_1, ph, Cp, eff_Cp_s) ==
    LET dT == ArrSub(T_2, T_1)
        dT_s == FSub(sst_2, sst_1)
        dph == diff_array(ph)
        terms == [i \in 1..Len(dT) |-> FMul(FMul(Cp[i] \div g, dT[i]), dph[i])]
    IN  FAdd(FNeg(Sum(terms)), FMul(eff_Cp_s, dT_s))

(***************************************************************************)
(* latent_heat_difference(h2o_2, h2o_1) = np.sum((h2o_2 - h2o_1) * Lv)     *)
(***************************************************************************)
latent_heat_difference(h2o_2, h2o_1) ==
    Sum([i \in 1..Len(h2o_2) |-> (h2o_2[i] - h2o_1[i]) * Lv])

(***************************************************************************)
(* typhon.physics.density(p, T) = p / (R * T); the gas constant is part of *)
(* the unit of density (600 density units per pressure/temperature unit).  *)
(***************************************************************************)
density(p, T) == (p * 600) \div T

\* interp1d(x, y)(x0), linear, on nodes x that decrease with the index; with
\* extrapolate the end segments are continued beyond the end nodes.
InterpSegment(x, x0) ==
    IF \E i \in 1..(Len(x) - 1) : x0 >= x[i + 1]
    THEN CHOOSE i \in 1..(Len(x) - 1) :
            /\ x0 >= x[i + 1]
            /\ \A j \in 1..(i - 1) : x0 < x[j + 1]
    ELSE Len(x) - 1

interp1d_extrapolate(x, y, x0) ==
    LET i == InterpSegment(x, x0)
    IN  y[i + 1] + ((x0 - x[i + 1]) * (y[i] - y[i + 1])) \div (x[i] - x[i + 1])

(***************************************************************************)
(* pressure_lapse_rate(p, phlev, T, lapse): lp = -lapse / (g * density),   *)
(* with the density interpolated onto phlev[:-1].  The lapse rate is held  *)
(* in 1/200 of a temperature unit per unit height.                         *)
(***************************************************************************)
pressure_lapse_rate(p, ph, T, lapse) ==
    LET density_p == [i \in 1..Len(p) |-> density(p[i], T[i])]
        dens == [i \in 1..(Len(ph) - 1) |-> interp1d_extrapolate(p, density_p, ph[i])]
    IN  [i \in 1..Len(lapse) |-> FDiv(0 - lapse[i] * 200, g * dens[i])]

(***************************************************************************)
(* dp_lapse = np.hstack((np.array([p[0] - phlev[0]]), np.diff(p)))         *)
(***************************************************************************)
dp_lapse(p, ph) == <<p[1] - ph[1]>> \o diff_array(p)

\* surfaceT - np.cumsum(dp_lapse * lp): the lapse-rate candidate
lapse_candidate(p, ph, surfaceT, lp) ==
    ScalarMinus(surfaceT, cumsum(ArrMul(dp_lapse(p, ph), lp)))

\* np.any(T_con > T_rad)
AnyWarmer(T_con, T_rad) == \E i \in 1..Len(T_con) : FGt(T_con[i], T_rad[i])

\* np.max(np.where(T_con > T_rad))
contop_of(T_con, T_rad) ==
    CHOOSE i \in 1..Len(T_con) :
        /\ FGt(T_con[i], T_rad[i])
        /\ \A j \in (i + 1)..Len(T_con) : ~FGt(T_con[j], T_rad[j])

\* a splice that starts one level too low: T_con[contop:] = T_rad[contop:]
HardConvectiveProfile_low(T_rad, p, ph, surfaceT, lp) ==
    LET T_con == lapse_candidate(p, ph, surfaceT, lp)
    IN  IF AnyWarmer(T_con, T_rad)
        THEN LET contop == contop_of(T_con, T_rad)
             IN  [i \in 1..Len(T_con) |-> IF i >= contop THEN T_rad[i] ELSE T_con[i]]
        ELSE T_rad

(***************************************************************************)
(* HardAdjustment.convective_profile(T_rad, p, phlev, surfaceT, lp)        *)
(***************************************************************************)
HardConvectiveProfile(T_rad, p, ph, surfaceT, lp) ==
    LET T_con == lapse_candidate(p, ph, surfaceT, lp)
    IN  IF AnyWarmer(T_con, T_rad)
        THEN LET contop == contop_of(T_con, T_rad)
             IN  [i \in 1..Len(T_con) |-> IF i > contop THEN T_rad[i] ELSE T_con[i]]
        ELSE T_rad

(***************************************************************************)
(* HardAdjustment.create_and_check_profile: the candidate at surfaceT and  *)
(* its energy difference.  The scratch copy's water content after          *)
(* humidity.adjust_humidity (an external model) is the argument h2o_2.     *)
(***************************************************************************)
create_and_check_profile(T_rad, h2o_1, Cp, surface_temp, eff_Cp_s, surfaceT, lp, h2o_2) ==
    LET T_con == HardConvectiveProfile(T_rad, plev, phlev, surfaceT, lp)
        dry == energy_difference_dry(T_con, T_rad, surfaceT, surface_temp,
                                     phlev, Cp, eff_Cp_s)
        wet_diff == latent_heat_difference(h2o_2, h2o_1)
    IN  [T_con |-> T_con, diff |-> FAdd(dry, wet_diff)]


(***************************************************************************)
(* RelaxedAdjustment.  Times (timestep, tau) are counted in hours, so      *)
(* tau0 = 1/24 day is 1.  exp is tabulated in steps of 1/2 of its          *)
(* argument, rounded; the mixing fraction tf = 1 - exp(-timestep/tau) is   *)
(* held in eighths and is exactly 1 (8/8), as in doubles, once             *)
(* timestep/tau >= 37.                                                     *)
(***************************************************************************)
ExpTable == <<1, 2, 3, 4, 7, 12, 20, 33, 55, 90, 148>>

\* np.exp(num / den) for num, den > 0
exp_ratio(num, den) ==
    LET k == (2 * num) \div den
    IN  IF k + 1 > Len(ExpTable) THEN ExpTable[Len(ExpTable)] ELSE ExpTable[k + 1]

\* 1 - np.exp(-timestep / tau), in eighths
mixing_fraction(timestep, tau) ==
    LET k == (2 * timestep) \div tau
    IN  IF k >= 74 THEN 8 ELSE IF k >= 4 THEN 7 ELSE <<0, 3, 5, 6>>[k + 1]

\* RelaxedAdjustment.get_convective_tau(p); convective_tau is the tau given
\* to __init__, <<>> standing for None
relaxed_get_convective_tau(convective_tau, p) ==
    IF convective_tau # <<>>
    THEN convective_tau
    ELSE [i \in 1..Len(p) |-> 1 * exp_ratio(p[1], p[i])]

\* a blend with the two weights exchanged
RelaxedConvectiveProfile_swapped(T_rad, p, ph, surfaceT, lp, timestep, convective_tau) ==
    LET tau == relaxed_get_convective_tau(convective_tau, p)
        tf == [i \in 1..Len(p) |-> mixing_fraction(timestep, tau[i])]
        cand == lapse_candidate(p, ph, surfaceT, lp)
    IN  [i \in 1..Len(p) |-> (T_rad[i] * tf[i] + (8 - tf[i]) * cand[i]) \div 8]

\* RelaxedAdjustment.convective_profile
RelaxedConvectiveProfile(T_rad, p, ph, surfaceT, lp, timestep, convective_tau) ==
    LET tau == relaxed_get_convective_tau(convective_tau, p)
        tf == [i \in 1..Len(p) |-> mixing_fraction(timestep, tau[i])]
        cand == lapse_candidate(p, ph, surfaceT, lp)
    IN  [i \in 1..Len(p) |-> (T_rad[i] * (8 - tf[i]) + tf[i] * cand[i]) \div 8]

(***************************************************************************)
(* Convective-top diagnostics.  The heating rate (T_con - T_rad)/timestep  *)
(* is held in tenths of K/day, the timestep in hours; lim = 0.2 is 2.      *)
(***************************************************************************)
lim_default == 2

convective_heating_of(T_new, T_rad, timestep) ==
    [i \in 1..Len(T_new) |-> ((T_new[i] - T_rad[i]) * 240) \div timestep]

\* a test of the heating against zero instead of lim
AnyHeating_positive(heating, lim) == \E i \in 1..Len(heating) : heating[i] > 0

\* np.any(convective_heating > lim)
AnyHeating(heating, lim) == \E i \in 1..Len(heating) : heating[i] > lim

\* int(np.argmax(mask)), as an index from 1: the first index at or after
\* `from` where the mask holds, and `from` itself when it holds nowhere
ArgmaxFrom(mask, from) ==
    IF \E i \in from..Len(mask) : mask[i]
    THEN CHOOSE i \in from..Len(mask) : mask[i] /\ \A j \in from..(i - 1) : ~mask[j]
    ELSE from

\* a[k - 1] for the index k (from 1) of a numpy array: the index -1 of the
\* lowest level wraps around to the last element
Before(a, k) == IF k = 1 THEN a[Len(a)] ELSE a[k - 1]

\* interp1d(heat_array, var_array)(lim), linear, bounds_error: the nodes are
\* sorted by x; a value outside them raises ValueError.  The quotient is
\* taken last so that the fixed-point result follows the real one.
interp1d_at(x, y, x0) ==
    LET lo == IF x[1] =< x[2] THEN 1 ELSE 2
        hi == 3 - lo
    IN  IF x0 < x[lo] \/ x0 > x[hi]
        THEN [raised |-> TRUE, value |-> 0]
        ELSE [raised |-> FALSE,
              value |-> FAdd(FDiv((y[hi] - y[lo]) * (x0 - x[lo]), x[hi] - x[lo]),
                             y[lo])]

(***************************************************************************)
(* interp_variable(variable, convective_heating, lim)                      *)
(***************************************************************************)
interp_variable(variable, heating, lim) ==
    LET positive_i == ArgmaxFrom([i \in 1..Len(heating) |-> heating[i] > lim], 1)
        contop_index == ArgmaxFrom([i \in 1..Len(heating) |-> heating[i] < lim],
                                   positive_i)
        heat_array == <<Before(heating, contop_index), heating[contop_index]>>
        var_array == <<Before(variable, contop_index), variable[contop_index]>>
    IN  interp1d_at(heat_array, var_array, lim)

(***************************************************************************)
(* Inputs of a run.                                                        *)
(***************************************************************************)
\* the largest surface temperature offset and water content tried
MaxSurfStep == 4
MaxWater == 3

\* radiative temperature profiles atmosphere['T']
TRadSet == {<<58, 50, 44>>, <<52, 51, 50>>, <<47, 52, 46>>, <<60, 50, 44>>,
            <<58, 50, 30>>}
\* surface['temperature']: below, at and above the coldest radiative level
SurfaceTSet == {40 + 5 * k : k \in 0..MaxSurfStep}
\* critical lapse rates on the half-levels phlev[:-1]
LapseSet == {<<6, 6, 6>>, <<3, 6, 9>>}
\* water content per layer [kg m^-2] of an atmosphere (water_vapour_profile)
H2OSet == {<<w, 0, 0>> : w \in 0..MaxWater}
\* atmosphere.get_heat_capacity()
get_heat_capacity == <<10, 10, 10>>
\* surface.heat_capacity
HeatCapacitySet == {16}
\* timestep [hours]
TimestepSet == {24, 240}
\* the tau given to RelaxedAdjustment.__init__ (<<>> is None) [hours]
TauSet == {<<>>, <<1, 2, 4>>, <<6, 12, 400>>}
\* the most get_convective_tau calls made on one instance
MaxTauCalls == 3
\* pressure levels and previous-timestep temperatures passed to
\* RelaxedTauT.get_convective_tau
PSet == {plev, <<8, 4, 2>>}
TOldSet == {<<58, 50, 44>>, <<56, 52, 46>>, <<62, 50, 40>>}
\* height of the levels, atmosphere['z']
HeightSet == {<<1, 4, 12>>}

VARIABLES
    atmosphere_T,         \* atmosphere['T'], the radiative profile
    atmosphere_H2O,       \* water content of the caller's atmosphere
    atmosphere_con,       \* the atmosphere object written by the last evaluation
    h2o_old,              \* water_vapour_profile(atmosphere_old)
    lapse,                \* critical lapse rate
    surface_temperature,  \* surface['temperature']
    surface_fixed,        \* isinstance(surface, SurfaceFixedTemperature)
    heat_capacity,        \* surface.heat_capacity
    pc,                   \* position of the caller / the running method
    op,                   \* the method called last
    err,                  \* the exception the call ended with
    surfaceTpos, diff_pos, surfaceTneg, diff_neg,  \* the bracket
    surfaceT,             \* the proposed iterate
    T_con, diff,          \* the last candidate and its energy difference
    h2o_new,              \* water_vapour_profile(atmosphere_con) of that candidate
    counter,              \* iterations of the while loop
    n_eval,               \* calls of create_and_check_profile
    exit_path,            \* the return statement taken
    ret_T, ret_Ts,        \* the returned pair
    cp_surfaceT,          \* convective_profile: its surfaceT argument,
    cp_timestep, cp_tau,  \*   timestep and the instance's convective_tau,
    cp_hard, cp_relaxed,  \*   the hard and the relaxed variant's result
    dg_T_new, dg_timestep,  \* update_convective_top: its T_con and timestep
    data_vars,            \* the component's variables (create_variable)
    interp_calls,         \* calls of interp_variable
    convective_tau,       \* RelaxedTauT: self.convective_tau
    tau_function,         \* RelaxedTauT: self.tau_function
    tau_arg,              \* the tau the instance was constructed with
    first_p, first_T_old, \* the arguments of the instance's first call
    tau_T_old,            \* the T_old of the last get_convective_tau call
    tau_ret,              \* what that call returned
    tau_calls             \* get_convective_tau calls on the instance

atmosphereVars == <<atmosphere_T, atmosphere_H2O, atmosphere_con>>
inputVars == <<h2o_old, lapse, surface_temperature, surface_fixed, heat_capacity>>
solverVars == <<surfaceTpos, diff_pos, surfaceTneg, diff_neg, surfaceT, T_con,
                diff, h2o_new, counter, n_eval, exit_path, ret_T, ret_Ts>>
profileVars == <<cp_surfaceT, cp_timestep, cp_tau, cp_hard, cp_relaxed>>
diagVars == <<dg_T_new, dg_timestep, data_vars, interp_calls>>
tauVars == <<convective_tau, tau_function, tau_arg, first_p, first_T_old,
             tau_T_old, tau_ret, tau_calls>>
vars == <<atmosphereVars, inputVars, pc, op, err, solverVars, profileVars,
          diagVars, tauVars>>

None == <<>>

\* near_zero = float(surface.heat_capacity / 1e13)
near_zero == heat_capacity \div NearZeroScale

\* lp = pressure_lapse_rate(p, phlev, T_rad, lapse)
lp == pressure_lapse_rate(plev, phlev, atmosphere_T, lapse)

\* the variables a Component holds before any create_variable
VariableNames == {"convective_heating_rate", "convective_top_plev",
                  "convective_top_temperature", "convective_top_index",
                  "convective_top_height"}
NoVariables == [n \in VariableNames |-> None]

\* the caller's atmosphere object, and no object yet
Caller == 0
NoObject == [id |-> Caller, T |-> None, H2O |-> None]

\* atmosphere.copy(): a new object, the n-th of the call, that shares no
\* field with the atmosphere it duplicates
atmosphere_copy(n) == n

\* an evaluation that hands the caller's atmosphere itself to
\* update_temporary_atmosphere
EvaluationTarget_caller(n) == Caller

\* atmosphere_con = atmosphere.copy(), the object that
\* update_temporary_atmosphere is called with in the n-th evaluation
EvaluationTarget(n) == atmosphere_copy(n)

\* update_temporary_atmosphere(atmosphere, T, humidity): the temperature is
\* written into the object it is given and the humidity model adjusts the
\* water of that object
update_temporary_atmosphere(target, T, h2o) ==
    IF target = Caller
    THEN /\ atmosphere_T' = T /\ atmosphere_H2O' = h2o
         /\ UNCHANGED atmosphere_con
    ELSE /\ atmosphere_con' = [id |-> target, T |-> T, H2O |-> h2o]
         /\ UNCHANGED <<atmosphere_T, atmosphere_H2O>>

SolverIdle ==
    /\ surfaceTpos = 0 /\ diff_pos = 0 /\ surfaceTneg = 0 /\ diff_neg = 0
    /\ surfaceT = 0 /\ T_con = None /\ diff = 0 /\ h2o_new = None
    /\ counter = 0 /\ n_eval = 0
    /\ exit_path = "none" /\ ret_T = None /\ ret_Ts = 0

Init ==
    /\ atmosphere_T \in TRadSet
    /\ h2o_old \in H2OSet
    \* the radiative step changes the temperature, not the water, of the
    \* atmosphere that atmosphere_old was copied from
    /\ atmosphere_H2O = h2o_old
    /\ atmosphere_con = NoObject
    /\ lapse \in LapseSet
    /\ surface_temperature \in SurfaceTSet
    /\ surface_fixed \in BOOLEAN
    /\ heat_capacity \in HeatCapacitySet
    /\ pc = "idle" /\ op = "none" /\ err = "none"
    /\ SolverIdle
    /\ cp_surfaceT = 0 /\ cp_timestep = 0 /\ cp_tau = None
    /\ cp_hard = None /\ cp_relaxed = None
    /\ dg_T_new = None /\ dg_timestep = 0
    /\ data_vars = NoVariables /\ interp_calls = 0
    /\ convective_tau = None /\ tau_function = None /\ tau_arg = None
    /\ first_p = None /\ first_T_old = None
    /\ tau_T_old = None /\ tau_ret = None /\ tau_calls = 0

(***************************************************************************)
(* HardAdjustment.stabilize.  The call of convective_adjustment passes     *)
(* T_old=T_old; stabilize binds no T_old (and the module has no global of  *)
(* that name), so evaluating the argument raises NameError before          *)
(* convective_adjustment is entered; nothing is written.                   *)
(***************************************************************************)
stabilize ==
    /\ pc = "idle"
    /\ pc' = "raised" /\ op' = "stabilize" /\ err' = "NameError"
    /\ UNCHANGED <<atmosphereVars, inputVars,
                   solverVars, profileVars, diagVars, tauVars>>

(***************************************************************************)
(* HardAdjustment.convective_adjustment, up to the while loop: the bypass  *)
(* for a fixed surface temperature, step 1 (no change of the surface) and  *)
(* step 2 (the coldest radiative temperature as the lower bound).          *)
(***************************************************************************)
\* a bypass test that never recognises the fixed-temperature surface
FixedSurfaceBypass_never == FALSE

FixedSurfaceBypass == surface_fixed

\* a step-1 test against zero instead of near_zero
Step1Returns_negative(d_pos) == FLt(d_pos, 0)

\* if diff_pos < near_zero
Step1Returns(d_pos) == FLt(d_pos, near_zero)

\* if np.abs(diff_neg) < near_zero
Step2Returns(d_neg) == FLt(FAbs(d_neg), near_zero)

convective_adjustment_begin ==
    /\ pc = "idle"
    /\ op' = "convective_adjustment" /\ err' = "none"
    /\ IF FixedSurfaceBypass
       THEN /\ T_con' = HardConvectiveProfile(atmosphere_T, plev, phlev,
                                             surface_temperature, lp)
            /\ ret_T' = T_con' /\ ret_Ts' = surface_temperature
            /\ exit_path' = "fixed" /\ pc' = "returned"
            /\ UNCHANGED <<surfaceTpos, diff_pos, surfaceTneg, diff_neg,
                           surfaceT, diff, h2o_new, counter, n_eval,
                           atmosphereVars>>
       ELSE \E h2o_con \in H2OSet :
            LET r == create_and_check_profile(atmosphere_T, h2o_old,
                        get_heat_capacity, surface_temperature, heat_capacity,
                        surface_temperature, lp, h2o_con)
                Tneg == min_array(atmosphere_T)
                d_neg == heat_capacity * (Tneg - surface_temperature)
            IN  /\ surfaceTpos' = surface_temperature
                /\ T_con' = r.T_con /\ diff_pos' = r.diff /\ n_eval' = 1
                /\ h2o_new' = h2o_con
                /\ update_temporary_atmosphere(EvaluationTarget(1), r.T_con,
                                               h2o_con)
                /\ UNCHANGED <<surfaceT, diff, counter>>
                /\ IF Step1Returns(r.diff)
                   THEN /\ ret_T' = r.T_con /\ ret_Ts' = surface_temperature
                        /\ exit_path' = "step1" /\ pc' = "returned"
                        /\ UNCHANGED <<surfaceTneg, diff_neg>>
                   ELSE /\ surfaceTneg' = Tneg /\ diff_neg' = d_neg
                        /\ IF Step2Returns(d_neg)
                           THEN /\ ret_T' = r.T_con /\ ret_Ts' = Tneg
                                /\ exit_path' = "step2" /\ pc' = "returned"
                           ELSE /\ pc' = "while"
                                /\ UNCHANGED <<exit_path, ret_T, ret_Ts>>
    /\ UNCHANGED <<inputVars, profileVars, diagVars, tauVars>>

(***************************************************************************)
(* The while loop: its test, the regula-falsi proposal, the evaluation     *)
(* with the replacement of one bound, and the iteration cap.               *)
(***************************************************************************)
\* a loop test that goes on until both bounds are within near_zero
LoopCondition_either(d_pos, d_neg) ==
    FGe(d_pos, near_zero) \/ FGe(FAbs(d_neg), near_zero)

\* while diff_pos >= near_zero and np.abs(diff_neg) >= near_zero
LoopCondition(d_pos, d_neg) ==
    FGe(d_pos, near_zero) /\ FGe(FAbs(d_neg), near_zero)

\* surfaceTneg + (surfaceTpos - surfaceTneg) * (-diff_neg) / (-diff_neg + diff_pos)
Proposal(Tneg, Tpos, d_neg, d_pos) ==
    FAdd(Tneg, FDiv(FMul(FSub(Tpos, Tneg), FNeg(d_neg)),
                    FAdd(FNeg(d_neg), d_pos)))

\* if diff > 0: the positive bound is replaced, else the negative one
ReplacesPositive(d) == FGt(d, 0)

\* if counter == 100: raise ValueError
CapReached(c) == c = MaxIter

convective_adjustment_propose ==
    /\ pc = "while"
    /\ LoopCondition(diff_pos, diff_neg)
    /\ surfaceT' = Proposal(surfaceTneg, surfaceTpos, diff_neg, diff_pos)
    /\ pc' = "body"
    /\ UNCHANGED <<atmosphereVars, inputVars,
                   op, err, surfaceTpos, diff_pos, surfaceTneg,
                   diff_neg, T_con, diff, h2o_new, counter, n_eval, exit_path,
                   ret_T, ret_Ts, profileVars, diagVars, tauVars>>

convective_adjustment_evaluate ==
    /\ pc = "body"
    /\ \E h2o_con \in H2OSet :
       LET r == create_and_check_profile(atmosphere_T, h2o_old,
                    get_heat_capacity, surface_temperature, heat_capacity,
                    surfaceT, lp, h2o_con)
       IN  /\ T_con' = r.T_con /\ diff' = r.diff /\ n_eval' = n_eval + 1
           /\ h2o_new' = h2o_con
           /\ update_temporary_atmosphere(EvaluationTarget(n_eval + 1),
                                          r.T_con, h2o_con)
           /\ IF ReplacesPositive(r.diff)
              THEN /\ diff_pos' = r.diff /\ surfaceTpos' = surfaceT
                   /\ UNCHANGED <<diff_neg, surfaceTneg>>
              ELSE /\ diff_neg' = r.diff /\ surfaceTneg' = surfaceT
                   /\ UNCHANGED <<diff_pos, surfaceTpos>>
    /\ counter' = counter + 1
    /\ IF CapReached(counter')
       THEN pc' = "raised" /\ err' = "ValueError"
       ELSE pc' = "while" /\ UNCHANGED err
    /\ UNCHANGED <<inputVars, op, surfaceT, exit_path, ret_T, ret_Ts,
                   profileVars, diagVars, tauVars>>

\* return T_con, surfaceT
convective_adjustment_exit ==
    /\ pc = "while"
    /\ ~LoopCondition(diff_pos, diff_neg)
    /\ ret_T' = T_con /\ ret_Ts' = surfaceT
    /\ exit_path' = "loop" /\ pc' = "returned"
    /\ UNCHANGED <<atmosphereVars, inputVars,
                   op, err, surfaceTpos, diff_pos, surfaceTneg,
                   diff_neg, surfaceT, T_con, diff, h2o_new, counter, n_eval,
                   profileVars, diagVars, tauVars>>

(***************************************************************************)
(* convective_profile called on its own: the hard variant, then the        *)
(* relaxed variant of an instance built with cp_tau, on the same T_rad, p, *)
(* phlev, lp and surfaceT.                                                 *)
(***************************************************************************)
hard_convective_profile ==
    /\ pc = "idle"
    /\ \E s \in SurfaceTSet :
        /\ cp_surfaceT' = s
        /\ cp_hard' = HardConvectiveProfile(atmosphere_T, plev, phlev, s, lp)
    /\ pc' = "profiled" /\ op' = "convective_profile" /\ err' = "none"
    /\ UNCHANGED <<atmosphereVars, inputVars,
                   solverVars, cp_timestep, cp_tau, cp_relaxed,
                   diagVars, tauVars>>

relaxed_convective_profile ==
    /\ pc = "profiled"
    /\ \E ts \in TimestepSet, tau \in TauSet :
        /\ cp_timestep' = ts /\ cp_tau' = tau
        /\ cp_relaxed' = RelaxedConvectiveProfile(atmosphere_T, plev, phlev,
                                                 cp_surfaceT, lp, ts, tau)
    /\ pc' = "returned"
    /\ UNCHANGED <<atmosphereVars, inputVars,
                   op, err, solverVars, cp_surfaceT, cp_hard,
                   diagVars, tauVars>>

(***************************************************************************)
(* HardAdjustment.update_convective_top(T_rad, T_con, p, timestep, lim)    *)
(* for an adjusted profile T_con, then update_convective_top_height(z).    *)
(***************************************************************************)
\* np.array([np.nan])
Undefined == <<NaN>>

update_convective_top ==
    /\ pc = "idle"
    /\ op' = "update_convective_top"
    /\ \E s \in SurfaceTSet, ts \in TimestepSet :
       LET T_new == HardConvectiveProfile(atmosphere_T, plev, phlev, s, lp)
           convective_heating == convective_heating_of(T_new, atmosphere_T, ts)
           contop_p == interp_variable(plev, convective_heating, lim_default)
           contop_T == interp_variable(T_new, convective_heating, lim_default)
           contop_index == interp_variable([i \in 1..NLev |-> i - 1],
                                           convective_heating, lim_default)
           stored == [data_vars EXCEPT !["convective_heating_rate"] =
                                          convective_heating]
       IN  /\ dg_T_new' = T_new /\ dg_timestep' = ts
           /\ IF AnyHeating(convective_heating, lim_default)
              THEN IF contop_p.raised
                   THEN /\ data_vars' = stored
                        /\ interp_calls' = interp_calls + 1
                        /\ pc' = "raised" /\ err' = "ValueError"
                   ELSE /\ data_vars' =
                             [stored EXCEPT
                                !["convective_top_plev"] = <<contop_p.value>>,
                                !["convective_top_temperature"] = <<contop_T.value>>,
                                !["convective_top_index"] = <<contop_index.value>>]
                        /\ interp_calls' = interp_calls + 3
                        /\ pc' = "diag" /\ err' = "none"
              ELSE /\ data_vars' =
                        [stored EXCEPT
                           !["convective_top_plev"] = Undefined,
                           !["convective_top_temperature"] = Undefined,
                           !["convective_top_index"] = Undefined]
                   /\ interp_calls' = interp_calls
                   /\ pc' = "diag" /\ err' = "none"
    /\ UNCHANGED <<atmosphereVars, inputVars, solverVars, profileVars,
                   tauVars>>

update_convective_top_height ==
    /\ pc = "diag"
    /\ op' = "update_convective_top_height"
    /\ \E z \in HeightSet :
       LET convective_heating == data_vars["convective_heating_rate"]
           contop_z == interp_variable(z, convective_heating, lim_default)
       IN  IF AnyHeating(convective_heating, lim_default)
           THEN IF contop_z.raised
                THEN /\ pc' = "raised" /\ err' = "ValueError"
                     /\ interp_calls' = interp_calls + 1
                     /\ UNCHANGED data_vars
                ELSE /\ data_vars' = [data_vars EXCEPT
                            !["convective_top_height"] = <<contop_z.value>>]
                     /\ interp_calls' = interp_calls + 1
                     /\ pc' = "returned" /\ err' = "none"
           ELSE /\ data_vars' = [data_vars EXCEPT
                       !["convective_top_height"] = Undefined]
                /\ interp_calls' = interp_calls
                /\ pc' = "returned" /\ err' = "none"
    /\ UNCHANGED <<atmosphereVars, inputVars,
                   solverVars, profileVars, dg_T_new, dg_timestep,
                   tauVars>>

(***************************************************************************)
(* RelaxedTauT: the construction of an instance and get_convective_tau.    *)
(* tau_function is held as the nodes interp1d was built from.              *)
(***************************************************************************)
\* RelaxedTauT.__init__(tau)
RelaxedTauT_init ==
    /\ pc = "idle"
    /\ \E tau \in TauSet : convective_tau' = tau /\ tau_arg' = tau
    /\ tau_function' = None
    /\ pc' = "tau" /\ op' = "RelaxedTauT" /\ err' = "none"
    /\ UNCHANGED <<atmosphereVars, inputVars, solverVars, profileVars,
                   diagVars, first_p, first_T_old, tau_T_old, tau_ret,
                   tau_calls>>

\* interp1d(x, y)(x0), linear, bounds_error: the nodes are sorted by x; a
\* value below the least or above the greatest node raises ValueError
interp1d_call(f, x0) ==
    LET below == {i \in 1..Len(f.x) : f.x[i] =< x0}
        above == {i \in 1..Len(f.x) : f.x[i] >= x0}
    IN  IF below = {} \/ above = {}
        THEN [raised |-> TRUE, value |-> 0]
        ELSE LET lo == CHOOSE i \in below : \A j \in below : f.x[j] =< f.x[i]
                 hi == CHOOSE i \in above : \A j \in above : f.x[j] >= f.x[i]
             IN  [raised |-> FALSE,
                  value |-> IF f.x[hi] = f.x[lo]
                            THEN f.y[lo]
                            ELSE f.y[lo] + ((f.y[hi] - f.y[lo]) * (x0 - f.x[lo]))
                                              \div (f.x[hi] - f.x[lo])]

\* self.tau_function(T_old) for an array T_old
tau_function_call(f, T_old) ==
    IF \E i \in 1..Len(T_old) : interp1d_call(f, T_old[i]).raised
    THEN [raised |-> TRUE, value |-> None]
    ELSE [raised |-> FALSE,
          value |-> [i \in 1..Len(T_old) |-> interp1d_call(f, T_old[i]).value]]

\* if self.convective_tau is None / if self.tau_function is None
CacheEmpty(field) == field = None

\* RelaxedTauT.get_convective_tau(p, T_old)
RelaxedTauT_get_convective_tau ==
    /\ pc = "tau" /\ tau_calls < MaxTauCalls
    /\ op' = "get_convective_tau" /\ pc' = "tau"
    /\ \E p \in PSet, T_old \in TOldSet :
       LET tau == IF CacheEmpty(convective_tau)
                  THEN relaxed_get_convective_tau(None, p)
                  ELSE convective_tau
           f == IF CacheEmpty(tau_function)
                THEN [x |-> T_old, y |-> tau]
                ELSE tau_function
           r == tau_function_call(f, T_old)
       IN  /\ convective_tau' = tau
           /\ tau_function' = f
           /\ tau_T_old' = T_old
           /\ IF tau_calls = 0
              THEN first_p' = p /\ first_T_old' = T_old
              ELSE UNCHANGED <<first_p, first_T_old>>
           /\ IF r.raised
              THEN err' = "ValueError" /\ tau_ret' = None
              ELSE err' = "none" /\ tau_ret' = r.value
    /\ tau_calls' = tau_calls + 1
    /\ UNCHANGED <<atmosphereVars, inputVars, solverVars, profileVars,
                   diagVars, tau_arg>>

Next ==
    \/ stabilize
    \/ convective_adjustment_begin
    \/ convective_adjustment_propose
    \/ convective_adjustment_evaluate
    \/ convective_adjustment_exit
    \/ hard_convective_profile
    \/ relaxed_convective_profile
    \/ update_convective_top
    \/ update_convective_top_height
    \/ RelaxedTauT_init
    \/ RelaxedTauT_get_convective_tau

Spec == Init /\ [][Next]_vars


(***************************************************************************)
(* Properties                                                              *)
(***************************************************************************)
SolverReturned == pc = "returned" /\ op = "convective_adjustment"

\* the energy difference of the returned pair: the dry term of ret_T against
\* the radiative profile and of ret_Ts against surface['temperature'], plus
\* the latent term of the returned candidate
ReturnedDiff ==
    FAdd(energy_difference_dry(ret_T, atmosphere_T, ret_Ts, surface_temperature,
                               phlev, get_heat_capacity, heat_capacity),
         latent_heat_difference(h2o_new, h2o_old))

\* the lapse-rate candidate at the current surface temperature exceeds the
\* radiative profile at no level
StableColumn ==
    \A i \in Levels :
        ~(lapse_candidate(plev, phlev, surface_temperature, lp)[i] > atmosphere_T[i])

\* the coldest radiative level is not warmer than the surface, so that
\* min(T_rad) is a lower bound of the search as the solver's comments assume
WellOrdered == min_array(atmosphere_T) =< surface_temperature

(* C1: energy conservation.  For a surface that is not the fixed-temperature
   variant, whenever convective_adjustment returns by a path other than the
   step-1 return, the energy difference of the returned pair is within
   near_zero of zero: |diff| < near_zero.  Stated for inputs whose coldest
   radiative level is not warmer than the surface.  (Violated by the step-2
   return.) *)
C1_EnergyConserved ==
    (SolverReturned /\ ~surface_fixed /\ WellOrdered
       /\ exit_path \in {"step2", "loop"})
        => FLt(FAbs(ReturnedDiff), near_zero)

\* The return after the loop does conserve energy for the inputs whose
\* coldest radiative level is not warmer than the surface: the bound that
\* ends the loop is the energy difference of the pair returned.
C1_LoopReturnConserves ==
    (SolverReturned /\ exit_path = "loop" /\ WellOrdered)
        => FLt(FAbs(ReturnedDiff), near_zero)

(* C2: fixed-surface bypass.  With a fixed-temperature surface no step of a
   call changes surface['temperature'], and a convective_adjustment call
   returns surface['temperature'] itself through the bypass, without any
   call of create_and_check_profile. *)
C2_FixedSurfaceBypass ==
    [][surface_fixed =>
         /\ surface_temperature' = surface_temperature
         /\ (pc' = "returned" /\ op' = "convective_adjustment")
               => /\ exit_path' = "fixed"
                  /\ ret_Ts' = surface_temperature
                  /\ n_eval' = 0]_vars

C2_Witness ==
    /\ SolverReturned /\ surface_fixed /\ exit_path = "fixed"
    /\ ret_T # atmosphere_T /\ ret_Ts = surface_temperature

(* C3: non-convergence is fatal and only non-convergence is.  The loop
   raises the non-convergence error only when the convergence condition has
   not been met after 100 evaluations: a search that meets it on or before
   its 100th evaluation returns instead of raising.  Stated for inputs whose
   coldest radiative level is not warmer than the surface.  (Violated: the
   cap is tested before the loop condition is tested again.) *)
C3_RaisesOnlyUnconverged ==
    (pc = "raised" /\ op = "convective_adjustment" /\ err = "ValueError"
       /\ WellOrdered)
        => /\ counter = MaxIter
           /\ FGe(diff_pos, near_zero) /\ FGe(FAbs(diff_neg), near_zero)

(* C4, as stated: whenever the lapse-rate candidate at the current surface
   temperature exceeds the radiative profile at no level, the pair that
   convective_adjustment hands to stabilize for atmosphere['T'] and
   surface['temperature'] is the state before the call, whatever the
   moisture.  Stated for inputs whose coldest radiative level is not warmer
   than the surface.  (Violated when the latent term alone reaches
   near_zero.) *)
C4_StableNoOpAnyMoisture ==
    (SolverReturned /\ StableColumn /\ WellOrdered)
        => ret_T = atmosphere_T /\ ret_Ts = surface_temperature

(* C4, amended: stability no-op.  If the lapse-rate candidate at the current
   surface temperature exceeds the radiative profile at no level and, for a
   surface that is not fixed, the latent term of that candidate is below
   near_zero, then the call returns at once with the radiative profile and
   the unchanged surface temperature, and no step changes atmosphere['T']
   or surface['temperature']. *)
C4_StableNoOp ==
    [][/\ atmosphere_T' = atmosphere_T
       /\ surface_temperature' = surface_temperature
       /\ (/\ pc = "idle" /\ op' = "convective_adjustment"
           /\ StableColumn
           /\ (surface_fixed
                 \/ latent_heat_difference(h2o_new', h2o_old) < near_zero))
             => /\ pc' = "returned"
                /\ ret_T' = atmosphere_T
                /\ ret_Ts' = surface_temperature]_vars

C4_Witness ==
    /\ SolverReturned /\ ~surface_fixed /\ StableColumn
    /\ latent_heat_difference(h2o_new, h2o_old) > 0
    /\ exit_path = "step1"
    /\ ret_T = atmosphere_T /\ ret_Ts = surface_temperature

(* C5: error taxonomy of stabilize.  A stabilize call ends either by
   returning normally or with the solver's non-convergence error, and with a
   fixed-temperature surface it returns normally.  (Violated: every call
   ends with NameError.) *)
C5_StabilizeOutcomes ==
    (op = "stabilize" /\ pc \in {"returned", "raised"})
        => /\ (pc = "returned" \/ err = "ValueError")
           /\ (surface_fixed => pc = "returned")


\* the heating rate that update_convective_top was called with
CalledHeating == convective_heating_of(dg_T_new, atmosphere_T, dg_timestep)

NoLevelAbove(heating) == \A i \in 1..Len(heating) : heating[i] =< lim_default

(* C6: no-convection sentinel.  When the convective heating rate exceeds lim
   at no level, update_convective_top ends without error and stores the
   one-element array [nan] for convective_top_plev,
   convective_top_temperature and convective_top_index,
   update_convective_top_height ends without error and stores [nan] for
   convective_top_height, and interp_variable is not called. *)
C6_NoConvectionSentinel ==
    /\ (op = "update_convective_top" /\ pc \in {"diag", "raised"}
        /\ NoLevelAbove(CalledHeating))
          => /\ pc = "diag" /\ err = "none"
             /\ data_vars["convective_heating_rate"] = CalledHeating
             /\ data_vars["convective_top_plev"] = <<NaN>>
             /\ data_vars["convective_top_temperature"] = <<NaN>>
             /\ data_vars["convective_top_index"] = <<NaN>>
             /\ interp_calls = 0
    /\ (op = "update_convective_top_height" /\ pc \in {"returned", "raised"}
        /\ NoLevelAbove(CalledHeating))
          => /\ pc = "returned" /\ err = "none"
             /\ data_vars["convective_top_height"] = <<NaN>>
             /\ interp_calls = 0

C6_Witness ==
    /\ op = "update_convective_top_height" /\ pc = "returned"
    /\ NoLevelAbove(CalledHeating)
    /\ \E i \in Levels : CalledHeating[i] > 0
    /\ data_vars["convective_top_height"] = <<NaN>>

\* surfaceT - sum_{k <= i} dp_lapse[k] * lp[k] for the surfaceT of the
\* convective_profile call
ProfileCandidate ==
    [i \in Levels |->
        cp_surfaceT - SumTo([k \in Levels |-> dp_lapse(plev, phlev)[k] * lp[k]], i)]

\* level i is at or below the hard variant's convective top
AtOrBelowTop(i) == \E j \in i..NLev : ProfileCandidate[j] > atmosphere_T[j]

ProfilesReturned == pc = "returned" /\ op = "convective_profile"

\* timestep/tau is so large at every level that tf = 1 - exp(-timestep/tau)
\* is 1 in double precision
RelaxedLimit ==
    \A i \in Levels :
        cp_timestep >= 37 * relaxed_get_convective_tau(cp_tau, plev)[i]

(* C7, as stated: relaxed-to-hard limit.  With tf = 1 at every level the
   relaxed variant's profile equals the hard variant's profile at every
   level, for the same T_rad, p, phlev, lp and surface temperature.
   (Violated above the hard variant's convective top.) *)
C7_RelaxedEqualsHard ==
    (ProfilesReturned /\ RelaxedLimit) => cp_relaxed = cp_hard

(* C7, amended: with tf = 1 at every level the relaxed variant's profile is
   the lapse-rate candidate surfaceT - cumsum(dp_lapse * lp) at every level;
   it equals the hard variant's profile at the levels at or below the hard
   variant's convective top, and above the top (or at every level, when the
   candidate exceeds T_rad nowhere) only where the candidate equals T_rad. *)
C7_RelaxedLimitIsCandidate ==
    (ProfilesReturned /\ RelaxedLimit)
        => \A i \in Levels :
              /\ cp_relaxed[i] = ProfileCandidate[i]
              /\ (cp_relaxed[i] = cp_hard[i])
                    <=> (AtOrBelowTop(i) \/ ProfileCandidate[i] = atmosphere_T[i])

C7_Witness ==
    /\ ProfilesReturned /\ RelaxedLimit
    /\ AtOrBelowTop(1) /\ ~AtOrBelowTop(NLev)
    /\ cp_relaxed[1] = cp_hard[1] /\ cp_relaxed[NLev] # cp_hard[NLev]

(* C8: bracket invariant of the solver.  In every iteration of the loop the
   bounds satisfy diff_neg <= 0 <= diff_pos, before the proposal and after
   the replacement of a bound, and the proposed iterate satisfies
   surfaceTneg <= surfaceT <= surfaceTpos, for every input that reaches the
   loop.  (Violated when min(T_rad) is above the surface temperature.) *)
C8_BracketInvariant ==
    (op = "convective_adjustment" /\ pc \in {"while", "body"})
        => /\ FLe(diff_neg, 0) /\ FLe(0, diff_pos)
           /\ pc = "body" => /\ FLe(surfaceTneg, surfaceT)
                             /\ FLe(surfaceT, surfaceTpos)

\* The bracket invariant does hold for the inputs whose coldest radiative
\* level is not warmer than the surface.
C8_BracketWellOrdered == WellOrdered => C8_BracketInvariant

BothOutside == FGe(diff_pos, near_zero) /\ FGe(FAbs(diff_neg), near_zero)

(* C9, as stated: loop exit condition.  The loop never exits normally in a
   state where only one of the two bounds is within near_zero: at a normal
   exit diff_pos < near_zero and |diff_neg| < near_zero both hold.
   (Violated: the loop exits when either holds.) *)
C9_ExitBothWithin ==
    (SolverReturned /\ exit_path = "loop")
        => FLt(diff_pos, near_zero) /\ FLt(FAbs(diff_neg), near_zero)

(* C9, amended: the loop iterates only while diff_pos >= near_zero and
   |diff_neg| >= near_zero both hold, and exits normally as soon as one of
   the two tests fails; at a normal exit with finite bounds exactly one of
   the two bounds is within near_zero, never both. *)
C9_ExitEitherWithin ==
    [][/\ (pc = "while" /\ pc' = "body") => BothOutside
       /\ (pc = "while" /\ pc' = "returned")
             => /\ ~BothOutside
                /\ (Finite(diff_pos) /\ Finite(diff_neg))
                      => (FLt(diff_pos, near_zero)
                            <=> ~FLt(FAbs(diff_neg), near_zero))]_vars

C9_Witness ==
    /\ SolverReturned /\ exit_path = "loop" /\ WellOrdered
    /\ counter > 1
    /\ FLt(FAbs(diff_neg), near_zero) /\ FGe(diff_pos, near_zero)

(* C10: hard profile splice.  With candidate[i] = surfaceT - sum_{k<=i}
   dp_lapse[k] * lp[k]: if the candidate exceeds T_rad at no level the hard
   profile is T_rad; otherwise, with contop the highest level where it
   does, the profile is T_rad above contop and the candidate at and below
   contop (also where the candidate is colder than T_rad), so the profile
   exceeds T_rad at contop. *)
C10_HardProfileSplice ==
    (op = "convective_profile" /\ pc \in {"profiled", "returned"})
        => \A i \in Levels :
              /\ AtOrBelowTop(i) => cp_hard[i] = ProfileCandidate[i]
              /\ ~AtOrBelowTop(i) => cp_hard[i] = atmosphere_T[i]
              /\ (AtOrBelowTop(i) /\ (i = NLev \/ ~AtOrBelowTop(i + 1)))
                    => cp_hard[i] > atmosphere_T[i]

C10_Witness ==
    /\ op = "convective_profile" /\ pc = "profiled"
    /\ AtOrBelowTop(2) /\ ~AtOrBelowTop(NLev)
    /\ \E i \in Levels : AtOrBelowTop(i) /\ cp_hard[i] < atmosphere_T[i]


\* the heating rate exceeds lim at some level
SomeLevelAbove(heating) == \E i \in 1..Len(heating) : heating[i] > lim_default

\* v lies between a and b
Between(v, a, b) ==
    Finite(v) /\ ((a =< v /\ v =< b) \/ (b =< v /\ v =< a))

\* levels k - 1 and k are adjacent, their heating values bracket lim from
\* above, and the three stored diagnostics lie between the values of their
\* variables at the two levels
BracketAt(k) ==
    /\ CalledHeating[k - 1] >= lim_default /\ lim_default > CalledHeating[k]
    /\ Between(data_vars["convective_top_plev"][1], plev[k - 1], plev[k])
    /\ Between(data_vars["convective_top_temperature"][1],
               dg_T_new[k - 1], dg_T_new[k])
    /\ Between(data_vars["convective_top_index"][1], k - 2, k - 1)

(* C11: threshold-crossing bracket.  Whenever the convective heating exceeds
   lim at some level, update_convective_top ends without error and the
   diagnosed pressure, temperature and index are interpolated between two
   adjacent levels contop_index - 1 and contop_index, contop_index >= 1,
   whose heating values bracket lim: heating[contop_index - 1] >= lim >
   heating[contop_index].  (Violated when the heating stays above lim from
   its first exceedance up to the top level.) *)
C11_ThresholdBracket ==
    (op = "update_convective_top" /\ pc \in {"diag", "raised"}
       /\ SomeLevelAbove(CalledHeating))
        => /\ pc = "diag" /\ err = "none"
           /\ \E k \in 2..NLev : BracketAt(k)

\* The bracket is found whenever the heating falls below lim at some level
\* above its first exceedance.
C11_BracketWhenCrossing ==
    (/\ op = "update_convective_top" /\ pc \in {"diag", "raised"}
     /\ \E i \in Levels : /\ CalledHeating[i] > lim_default
                          /\ \E j \in (i + 1)..NLev : CalledHeating[j] < lim_default)
        => /\ pc = "diag" /\ err = "none"
           /\ \E k \in 2..NLev : BracketAt(k)


(* C12: order of steps in stabilize.  After each stabilize call, other than
   one that the solver's non-convergence error ends, all five diagnostic
   variables (convective_heating_rate, convective_top_plev,
   convective_top_temperature, convective_top_index, convective_top_height)
   have been written, convective_heating_rate with one value for each
   level.  (Violated: every call ends with NameError before the solver, the
   write-back and the diagnostics.) *)
C12_StabilizeWritesDiagnostics ==
    (op = "stabilize" /\ pc \in {"returned", "raised"} /\ err # "ValueError")
        => /\ \A name \in VariableNames : data_vars[name] # None
           /\ Len(data_vars["convective_heating_rate"]) = NLev


(* C13: candidate evaluation has no effect on caller state.  No call of
   create_and_check_profile made during a convective_adjustment call changes
   the caller's atmosphere (its T and H2O), atmosphere_old or
   surface['temperature']; the candidate profile and the adjusted humidity
   are written to the copy made for that evaluation, an object that is not
   the caller's atmosphere and not the copy of an earlier evaluation. *)
C13_EvaluationFrame ==
    [][(op' = "convective_adjustment" /\ n_eval' # n_eval)
          => /\ atmosphere_T' = atmosphere_T
             /\ atmosphere_H2O' = atmosphere_H2O
             /\ h2o_old' = h2o_old
             /\ surface_temperature' = surface_temperature
             /\ atmosphere_con'.id # Caller
             /\ atmosphere_con'.id > atmosphere_con.id
             /\ atmosphere_con'.T = T_con'
             /\ atmosphere_con'.H2O = h2o_new']_vars

C13_Witness ==
    /\ SolverReturned /\ n_eval >= 3
    /\ atmosphere_con.id = n_eval
    /\ atmosphere_con.T # atmosphere_T
    /\ atmosphere_con.H2O # atmosphere_H2O


\* a get_convective_tau call has been made on the instance
TauCalled == op = "get_convective_tau" /\ tau_calls >= 1

\* the timescale profile of the first call: the tau the instance was
\* constructed with or, without one, tau0 * exp(p[0] / p) for that call's p
FirstTau ==
    IF tau_arg = None
    THEN [i \in 1..Len(first_p) |-> exp_ratio(first_p[1], first_p[i])]
    ELSE tau_arg

\* the interpolation of the first call's timescale profile against the first
\* call's T_old, evaluated at the value t
FirstInterpolation(t) ==
    interp1d_call([x |-> first_T_old, y |-> FirstTau], t)

(* C14: one-shot timescale cache.  On one RelaxedTauT instance
   convective_tau (when not supplied) and tau_function are built by the
   first get_convective_tau call, from that call's p and T_old, and no later
   call changes them; every call returns tau_function evaluated at the T_old
   passed to it.  (Violated: a call whose T_old has a value outside the
   range of the first call's T_old raises ValueError.) *)
C14_OneShotCache ==
    TauCalled
        => /\ convective_tau = FirstTau
           /\ tau_function = [x |-> first_T_old, y |-> FirstTau]
           /\ err = "none"
           /\ tau_ret = [i \in 1..Len(tau_T_old) |->
                            FirstInterpolation(tau_T_old[i]).value]

\* The cache itself is built once: the fields are those of the first call
\* after every call, and a call that returns returns the first call's
\* interpolation at its own T_old.
C14_CacheBuiltOnce ==
    TauCalled
        => /\ convective_tau = FirstTau
           /\ tau_function = [x |-> first_T_old, y |-> FirstTau]
           /\ err = "none"
                => tau_ret = [i \in 1..Len(tau_T_old) |->
                                 FirstInterpolation(tau_T_old[i]).value]
           /\ err # "none"
                => \E i \in 1..Len(tau_T_old) :
                      \/ \A j \in 1..Len(first_T_old) : tau_T_old[i] < first_T_old[j]
                      \/ \A j \in 1..Len(first_T_old) : tau_T_old[i] > first_T_old[j]

=============================================================================
